---- MODULE Spec2Model ----
(***************************************************************************)
(* Model of the googleMapInfo crawler (src/src/crowl.py): the breadth-     *)
(* first traversal crawl_website, the URL handling it relies on            *)
(* (urllib.parse.urlparse / urljoin as crawl_website uses them) and the    *)
(* batch driver under __main__.                                            *)
(*                                                                         *)
(* URLs are TLA+ strings and are parsed, joined and re-formatted character *)
(* by character, as the Python code does.  Restrictions of the URL model:  *)
(* schemes are written in lower case, and no URL contains ';' (path        *)
(* parameters), whitespace or control characters.                          *)
(***************************************************************************)
EXTENDS Integers, Sequences, FiniteSets, TLC

(***************************************************************************)
(* String helpers (Python str methods used by urllib.parse).               *)
(***************************************************************************)

\* the characters a..b of s (1-indexed, inclusive), clamped to the string as
\* a Python slice s[a-1:b] is
Slice(s, a, b) ==
    LET lo == IF a < 1 THEN 1 ELSE a
        hi == IF b > Len(s) THEN Len(s) ELSE b
    IN  IF lo > hi THEN "" ELSE SubSeq(s, lo, hi)

\* s[i] as a one-character string (1-indexed); "" outside the string
CharAt(s, i) == Slice(s, i, i)

\* s.find(c) for a one-character c, searching from index `from`;
\* 0 when absent (Python's -1)
RECURSIVE Find(_, _, _)
Find(s, c, from) ==
    IF from > Len(s) THEN 0
    ELSE IF CharAt(s, from) = c THEN from
    ELSE Find(s, c, from + 1)

\* index of the first character of s, at or after `from`, that is in the
\* set cs; Len(s) + 1 when there is none
RECURSIVE FindAny(_, _, _)
FindAny(s, cs, from) ==
    IF from > Len(s) THEN Len(s) + 1
    ELSE IF CharAt(s, from) \in cs THEN from
    ELSE FindAny(s, cs, from + 1)

\* sub in s (Python's substring test)
RECURSIVE ContainsFrom(_, _, _)
ContainsFrom(s, sub, i) ==
    IF i + Len(sub) - 1 > Len(s) THEN FALSE
    ELSE IF Slice(s, i, i + Len(sub) - 1) = sub THEN TRUE
    ELSE ContainsFrom(s, sub, i + 1)

Contains(s, sub) == ContainsFrom(s, sub, 1)

\* s.split(c): the sequence of pieces of s between occurrences of c
RECURSIVE Split(_, _)
Split(s, c) ==
    LET i == Find(s, c, 1)
    IN  IF i = 0 THEN <<s>>
        ELSE <<Slice(s, 1, i - 1)>> \o Split(Slice(s, i + 1, Len(s)), c)

\* c.join(parts)
RECURSIVE Join(_, _)
Join(parts, c) ==
    IF Len(parts) = 0 THEN ""
    ELSE IF Len(parts) = 1 THEN parts[1]
    ELSE parts[1] \o c \o Join(Tail(parts), c)

(***************************************************************************)
(* urllib.parse                                                            *)
(***************************************************************************)

Letters ==
    {"a", "b", "c", "d", "e", "f", "g", "h", "i", "j", "k", "l", "m",
     "n", "o", "p", "q", "r", "s", "t", "u", "v", "w", "x", "y", "z"}

SchemeChars ==
    Letters \cup {"0", "1", "2", "3", "4", "5", "6", "7", "8", "9",
                  "+", "-", "."}

\* the schemes of urllib.parse.uses_relative / uses_netloc the model meets
UsesRelative == {"", "http", "https", "ftp", "file"}
UsesNetloc == {"", "http", "https", "ftp", "file"}

AllSchemeChars(s) == \A i \in 1..Len(s) : CharAt(s, i) \in SchemeChars

\* url, query = url.split('?', 1): the last step of urlsplit
SplitQuery(scheme, netloc, url, fragment, q) ==
    [scheme |-> scheme, netloc |-> netloc,
     path |-> IF q = 0 THEN url ELSE Slice(url, 1, q - 1),
     query |-> IF q = 0 THEN "" ELSE Slice(url, q + 1, Len(url)),
     fragment |-> fragment]

\* url, fragment = url.split('#', 1), then the query
SplitFragment(scheme, netloc, url, f) ==
    IF f = 0
    THEN SplitQuery(scheme, netloc, url, "", Find(url, "?", 1))
    ELSE SplitQuery(scheme, netloc, Slice(url, 1, f - 1),
                    Slice(url, f + 1, Len(url)),
                    Find(Slice(url, 1, f - 1), "?", 1))

\* netloc, url = _splitnetloc(url, 2) when url starts with '//'
SplitNetloc(scheme, url, delim) ==
    IF Slice(url, 1, 2) = "//"
    THEN SplitFragment(scheme, Slice(url, 3, delim - 1),
                       Slice(url, delim, Len(url)),
                       Find(Slice(url, delim, Len(url)), "#", 1))
    ELSE SplitFragment(scheme, "", url, Find(url, "#", 1))

\* the scheme is what precedes the first ':' when it is a letter followed by
\* scheme characters
SplitScheme(url, default, i) ==
    IF /\ i > 1
       /\ CharAt(url, 1) \in Letters
       /\ AllSchemeChars(Slice(url, 1, i - 1))
    THEN SplitNetloc(Slice(url, 1, i - 1), Slice(url, i + 1, Len(url)),
                     FindAny(Slice(url, i + 1, Len(url)), {"/", "?", "#"}, 3))
    ELSE SplitNetloc(default, url, FindAny(url, {"/", "?", "#"}, 3))

\* urlparse(url, scheme=default): scheme, netloc, path, query, fragment
urlparse_default(url, default) == SplitScheme(url, default, Find(url, ":", 1))

urlparse(url) == urlparse_default(url, "")

\* url + '?' + query and url + '#' + fragment of urlunsplit
UnsplitTail(url, p) ==
    url \o (IF p.query # "" THEN "?" \o p.query ELSE "")
        \o (IF p.fragment # "" THEN "#" \o p.fragment ELSE "")

\* urlunparse((scheme, netloc, path, '', query, fragment))
urlunparse(p) ==
    UnsplitTail(
        (IF p.scheme # "" THEN p.scheme \o ":" ELSE "") \o
        (IF \/ p.netloc # ""
            \/ (p.scheme # "" /\ p.scheme \in UsesNetloc
                   /\ Slice(p.path, 1, 2) # "//")
         THEN "//" \o p.netloc \o
              (IF p.path # "" /\ CharAt(p.path, 1) # "/" THEN "/" ELSE "")
              \o p.path
         ELSE p.path),
        p)

\* segments[1:-1] = filter(None, segments[1:-1])
FilterMiddle(segs) ==
    IF Len(segs) <= 2 THEN segs
    ELSE <<Head(segs)>>
         \o SelectSeq(SubSeq(segs, 2, Len(segs) - 1), LAMBDA x : x # "")
         \o <<segs[Len(segs)]>>

\* the loop of urljoin that resolves '.' and '..' segments
RECURSIVE ResolveDots(_, _)
ResolveDots(segs, acc) ==
    IF Len(segs) = 0 THEN acc
    ELSE IF Head(segs) = ".."
    THEN ResolveDots(Tail(segs),
                     IF Len(acc) = 0 THEN acc ELSE SubSeq(acc, 1, Len(acc) - 1))
    ELSE IF Head(segs) = "." THEN ResolveDots(Tail(segs), acc)
    ELSE ResolveDots(Tail(segs), Append(acc, Head(segs)))

\* base_parts: the segments of the base path without the last one
BaseParts(bp) ==
    IF bp[Len(bp)] # "" THEN SubSeq(bp, 1, Len(bp) - 1) ELSE bp

\* the segments of the joined path before '.' and '..' are resolved
Segments(bpath, path) ==
    IF CharAt(path, 1) = "/" THEN Split(path, "/")
    ELSE FilterMiddle(BaseParts(Split(bpath, "/")) \o Split(path, "/"))

\* '/'.join(resolved_path) or '/'
ResolvedPath(segments, joined) ==
    IF segments[Len(segments)] \in {".", ".."}
    THEN (IF joined = "" THEN "/" ELSE joined \o "/")
    ELSE (IF joined = "" THEN "/" ELSE joined)

\* the path of urljoin for a non-empty relative path
MergePath(segments) ==
    ResolvedPath(segments, Join(ResolveDots(segments, <<>>), "/"))

\* urljoin once base (b) and url (u) are parsed
JoinParsed(b, u, url) ==
    IF u.scheme # b.scheme \/ u.scheme \notin UsesRelative THEN url
    ELSE IF u.scheme \in UsesNetloc /\ u.netloc # "" THEN urlunparse(u)
    ELSE urlunparse(
            [scheme |-> u.scheme,
             netloc |-> IF u.scheme \in UsesNetloc THEN b.netloc
                        ELSE u.netloc,
             path |-> IF u.path = "" THEN b.path
                      ELSE MergePath(Segments(b.path, u.path)),
             query |-> IF u.path = "" /\ u.query = "" THEN b.query
                       ELSE u.query,
             fragment |-> u.fragment])

\* the scheme of the base is the default scheme of url
JoinBase(b, url) == JoinParsed(b, urlparse_default(url, b.scheme), url)

\* urljoin(base, url) for non-empty base and url
urljoin(base, url) == JoinBase(urlparse(base), url)

(***************************************************************************)
(* Bounds and the modelled web                                             *)
(***************************************************************************)

\* anchors the site serves during one run, all pages together
MaxLinks == 3

\* rows of the store table
MaxRows == 2

\* anchors served, all pages together, during one run of the batch driver
DriverMaxLinks == 1

\* places the search returns, all pages together
MaxPlaces == 2

\* pages the search returns at most
MaxPages == 2

\* root URLs crawl_website is called with
Roots ==
    {"http://example.test/", "http://example.test/?x=1",
     "https://instagram.com/store/"}

\* a cell pandas reads as missing (pd.isna)
NaN == "NaN"

\* the two sentinels of the website column (line 131), written in Japanese
\* in the source ("none" and "error"); the model spells them in ASCII
SentinelNone == "nashi"
SentinelError == "era-"

\* values of the website column
Websites ==
    {NaN, "", SentinelNone, SentinelError, "example.test/about",
     "http:///about", "http://example.test/"}

\* href attribute values of the <a> tags a page may carry
Hrefs ==
    {"", "/", "/b", "c",
     "http://example.test/about?x=1#sec",
     "https://instagram.com/store/",
     "https://instagram.com/store/?hl=ja",
     "https://www.instagram.com/shop",
     "http://other.test/",
     "http://www.example.test/about",
     "http://Example.test/about"}

\* the anchors of a page: sequences of at most n hrefs
Bodies(n) == UNION {[1..k -> Hrefs] : k \in 0..n}

\* outcome of requests.get + raise_for_status that raised
Fail == <<"error">>

\* no request made yet
NoResponse == <<"none">>

Range(f) == {f[i] : i \in DOMAIN f}

(***************************************************************************)
(* urljoin and urlparse are pure functions of their arguments.  Their      *)
(* values are computed once, over every URL that can be formed from the    *)
(* roots and the hrefs, and looked up from then on.                        *)
(***************************************************************************)

\* scheme://netloc/path of a URL, without and with its query string
Reformatted(url) ==
    LET p == urlparse(url)
        c == p.scheme \o "://" \o p.netloc \o p.path
    IN  {c, IF p.query # "" THEN c \o "?" \o p.query ELSE c}

\* the URLs that can be formed from the set S by joining an href to one of
\* them or by reformatting one of them
RECURSIVE UrlClosure(_)
UrlClosure(S) ==
    LET T == S \cup {urljoin(u, h) : u \in S, h \in Hrefs \ {""}}
               \cup UNION {Reformatted(u) : u \in S}
    IN  IF T = S THEN S ELSE UrlClosure(T)

\* crawl_website is called with URLs that have a scheme
SiteUrls ==
    UrlClosure({u \in Roots \cup Websites : urlparse(u).scheme # ""})

JoinTable == [u \in SiteUrls |-> [h \in Hrefs \ {""} |-> urljoin(u, h)]]

ParseTable == [u \in SiteUrls |-> urlparse(u)]

\* urljoin(base, href)
JoinUrl(base, href) == JoinTable[base][href]

\* urlparse(url)
ParseUrl(url) == ParseTable[url]

(***************************************************************************)
(* State                                                                   *)
(***************************************************************************)
VARIABLES
    pc,            \* control point of the program
    root_url,      \* crawl_website: argument
    base_netloc,   \* crawl_website: urlparse(root_url).netloc
    visited,       \* crawl_website: set of visited URLs
    pages,         \* crawl_website: list of page records
    to_visit,      \* crawl_website: list of URLs to crawl
    response,      \* crawl_website: the anchors of the last response, or Fail
    log,           \* history: requests.get and time.sleep calls of this crawl
    served,        \* history: anchors of each page fetched successfully
    links,         \* history: instagram_links of each page record
    enqueued,      \* history: URLs ever put into to_visit in this crawl
    iterations,    \* history: iterations of the while loop of this crawl
    linksLeft,     \* environment: anchors the site may still serve
    stores_df,     \* __main__: the store table (one record per row)
    start_index,   \* __main__: first prompt
    count,         \* __main__: second prompt
    selected,      \* __main__: positions of the rows of selected_stores_df
    k,             \* __main__: index of the for loop over selected
    all_results,   \* __main__: rows to write
    calls,         \* history: row positions crawl_website was called for
    saved,         \* the rows written by save_pages_to_excel
    results,       \* get_places: the places accumulated
    next_page_token, \* get_places: the token of the last response
    requests,      \* history: the page_token of every gmaps.places call
    received,      \* history: what every gmaps.places call answered
    places,        \* main.py: the list get_places returned
    idx,           \* main.py: index of the for loop over places
    data_list,     \* main.py: one row per place processed
    answers,       \* history: what gmaps.place and reverse_geocode answered
    written        \* main.py: the rows of df_sorted written by to_excel

crawlVars == <<root_url, base_netloc, visited, pages, to_visit, response, log,
               served,
               links, enqueued, iterations>>
mainVars == <<stores_df, start_index, count, selected, k, all_results,
              calls, saved>>
placesVars == <<results, next_page_token, requests, received, places, idx,
                data_list, answers, written>>
vars == <<pc, crawlVars, linksLeft, mainVars, placesVars>>

\* main.py is not running
PlacesIdle ==
    /\ results = <<>>
    /\ next_page_token = "None"
    /\ requests = <<>>
    /\ received = <<>>
    /\ places = <<>>
    /\ idx = 0
    /\ data_list = <<>>
    /\ answers = <<>>
    /\ written = <<>>

(***************************************************************************)
(* crawl_website                                                           *)
(***************************************************************************)

\* variant: the list used as a stack (to_visit.pop())
Dequeue_last(tv) == [url |-> tv[Len(tv)], rest |-> SubSeq(tv, 1, Len(tv) - 1)]

\* to_visit.pop(0): the URL taken and the list left
Dequeue(tv) == [url |-> Head(tv), rest |-> Tail(tv)]

\* variant: the URL is not recorded as visited
MarkVisited_skip(vis, url) == vis

\* visited.add(current_url)
MarkVisited(vis, url) == vis \cup {url}

\* variant: the query string is kept
clean_href_query(parsed_href) ==
    parsed_href.scheme \o "://" \o parsed_href.netloc \o parsed_href.path
    \o (IF parsed_href.query # "" THEN "?" \o parsed_href.query ELSE "")

\* f"{parsed_href.scheme}://{parsed_href.netloc}{parsed_href.path}"
clean_href(parsed_href) ==
    parsed_href.scheme \o "://" \o parsed_href.netloc \o parsed_href.path

\* variant: the host is compared for equality with the marker
IsInstagram_exact(netloc) == netloc = "instagram.com"

\* "instagram.com" in parsed_href.netloc
IsInstagram(netloc) == Contains(netloc, "instagram.com")

\* variant: subdomains of the root host count as internal
IsInternal_sub(netloc, base) == Contains(netloc, base)

\* parsed_href.netloc == base_netloc
IsInternal(netloc, base) == netloc = base

\* variant: no test at all, every internal link is appended
IsNew_none(clean, vis, tv) == TRUE

\* variant: only the visited set is consulted
IsNew_visitedOnly(clean, vis, tv) == clean \notin vis

\* variant: only the frontier is consulted
IsNew_queueOnly(clean, vis, tv) == clean \notin Range(tv)

\* clean_href not in visited and clean_href not in to_visit
IsNew(clean, vis, tv) == clean \notin vis /\ clean \notin Range(tv)

\* variant: the test for an internal link comes first
Classify_internalFirst(parsed_href, base, vis, st) ==
    IF IsInternal(parsed_href.netloc, base)
    THEN IF IsNew(clean_href(parsed_href), vis, st.to_visit)
         THEN [st EXCEPT !.to_visit = Append(@, clean_href(parsed_href))]
         ELSE st
    ELSE IF IsInstagram(parsed_href.netloc)
         THEN [st EXCEPT !.instagram_links = @ \cup {clean_href(parsed_href)}]
         ELSE st

\* lines 67-74: the link, parsed, goes to instagram_links, to to_visit or
\* nowhere
Classify(parsed_href, base, vis, st) ==
    IF IsInstagram(parsed_href.netloc)
    THEN [st EXCEPT !.instagram_links = @ \cup {clean_href(parsed_href)}]
    ELSE IF /\ IsInternal(parsed_href.netloc, base)
            /\ IsNew(clean_href(parsed_href), vis, st.to_visit)
         THEN [st EXCEPT !.to_visit = Append(@, clean_href(parsed_href))]
         ELSE st

\* variant: the href is parsed as it is, without urljoin; a relative link
\* has no host and is dropped
ScanAnchor_absoluteOnly(href, current_url, base, vis, st) ==
    IF Slice(href, 1, 4) # "http" THEN st
    ELSE Classify(ParseUrl(href), base, vis, st)

\* the body of the loop over the <a> tags, for one tag (lines 57-74)
ScanAnchor(href, current_url, base, vis, st) ==
    IF href = "" THEN st
    ELSE Classify(ParseUrl(JoinUrl(current_url, href)), base, vis, st)

\* the loop over soup.find_all("a"), in document order
RECURSIVE ScanAnchors(_, _, _, _, _)
ScanAnchors(anchors, current_url, base, vis, st) ==
    IF Len(anchors) = 0 THEN st
    ELSE ScanAnchors(Tail(anchors), current_url, base, vis,
                     ScanAnchor(Head(anchors), current_url, base, vis, st))

\* variant: a URL whose fetch failed is put back at the tail of the list
FetchFailed_requeue(rest, url) == Append(rest, url)

\* except requests.RequestException: print, continue (lines 41-43): the URL
\* is dropped, the list is what pop(0) left
FetchFailed(rest, url) == rest

\* variant: the record is inserted at the head (pages.insert(0, ...))
AppendPage_front(ps, record) == <<record>> \o ps

\* pages.append({...}) (lines 76-80)
AppendPage(ps, record) == Append(ps, record)

\* the orders in which iterating over a set may yield its elements
Orderings(S) ==
    {o \in [1..Cardinality(S) -> S] :
        \A i, j \in 1..Cardinality(S) : i # j => o[i] # o[j]}

\* what requests.get(current_url) may answer
Responses(url) ==
    IF url \in DOMAIN served THEN {Fail, served[url]}
    ELSE {Fail} \cup Bodies(linksLeft)

\* one iteration of `while to_visit:` (lines 31-82)
CrawlIteration ==
    /\ pc = "crawl"
    /\ to_visit # <<>>
    /\ LET d == Dequeue(to_visit)
           current_url == d.url
       IN  IF current_url \in visited
           THEN /\ to_visit' = d.rest
                /\ iterations' = iterations + 1
                /\ UNCHANGED <<visited, pages, response, log, served, links,
                               enqueued, linksLeft>>
           ELSE /\ visited' = MarkVisited(visited, current_url)
                /\ iterations' = iterations + 1
                /\ response' \in Responses(current_url)
                /\ IF response' = Fail
                   THEN /\ to_visit' = FetchFailed(d.rest, current_url)
                        /\ log' = Append(log, [op |-> "get",
                                               url |-> current_url])
                        /\ UNCHANGED <<pages, served, links, enqueued,
                                       linksLeft>>
                   ELSE LET st == ScanAnchors(response', current_url,
                                     base_netloc, visited',
                                     [to_visit |-> d.rest,
                                      instagram_links |-> {}])
                        IN  /\ to_visit' = st.to_visit
                            /\ pages' \in
                                  {AppendPage(pages,
                                      [PageURL |-> current_url,
                                       Instagram |-> Join(o, ", ")]) :
                                   o \in Orderings(st.instagram_links)}
                            /\ links' = Append(links, st.instagram_links)
                            /\ log' = log \o
                                  <<[op |-> "get", url |-> current_url],
                                    [op |-> "sleep", url |-> current_url]>>
                            /\ served' = (current_url :> response') @@ served
                            /\ enqueued' = enqueued \cup Range(st.to_visit)
                            /\ linksLeft' =
                                  IF current_url \in DOMAIN served
                                  THEN linksLeft
                                  ELSE linksLeft - Len(response')
    /\ UNCHANGED <<pc, root_url, base_netloc, mainVars>>
    /\ UNCHANGED placesVars

\* `while to_visit:` finds the list empty; return pages (line 83)
CrawlReturn ==
    /\ pc = "crawl"
    /\ to_visit = <<>>
    /\ pc' = "returned"
    /\ UNCHANGED <<crawlVars, linksLeft, mainVars>>
    /\ UNCHANGED placesVars

\* the locals of crawl_website(url) on entry (lines 23-29)
EnterCrawl(url) ==
    /\ root_url' = url
    /\ base_netloc' = ParseUrl(url).netloc
    /\ visited' = {}
    /\ pages' = <<>>
    /\ to_visit' = <<url>>
    /\ response' = NoResponse
    /\ log' = <<>>
    /\ served' = <<>>
    /\ links' = <<>>
    /\ enqueued' = {url}
    /\ iterations' = 0

\* crawl_website(root) called on its own
Init ==
    /\ pc = "crawl"
    /\ root_url \in Roots
    /\ base_netloc = ParseUrl(root_url).netloc
    /\ visited = {}
    /\ pages = <<>>
    /\ to_visit = <<root_url>>
    /\ response = NoResponse
    /\ log = <<>>
    /\ served = <<>>
    /\ links = <<>>
    /\ enqueued = {root_url}
    /\ iterations = 0
    /\ linksLeft = MaxLinks
    /\ stores_df = <<>>
    /\ start_index = 0
    /\ count = 0
    /\ selected = <<>>
    /\ k = 0
    /\ all_results = <<>>
    /\ calls = <<>>
    /\ saved = <<>>
    /\ PlacesIdle

Next == CrawlIteration \/ CrawlReturn

Spec == Init /\ [][Next]_vars

\* the loop of crawl_website is sequential code: it keeps running
FairSpec == Spec /\ WF_vars(Next)

(***************************************************************************)
(* __main__: the batch driver                                              *)
(***************************************************************************)

\* the store tables: row p has store name p
Tables ==
    UNION {[1..n -> [name : {0}, website : Websites]] : n \in 0..MaxRows}

StoreTable(t) == [p \in DOMAIN t |-> [t[p] EXCEPT !.name = p]]

\* integers typed at the prompts
Inputs == (0 - 2)..(MaxRows + 2)

\* urlparse of every value of the website column, computed once
WebsiteTable == [w \in Websites |-> urlparse(w)]

\* variant: only the scheme is required
is_valid_url_scheme(url) ==
    IF url = NaN THEN FALSE ELSE WebsiteTable[url].scheme # ""

\* is_valid_url(url); urlparse raises on a missing value
is_valid_url(url) ==
    IF url = NaN THEN FALSE
    ELSE LET result == WebsiteTable[url]
         IN  result.scheme # "" /\ result.netloc # ""

\* pd.isna(website_url) or website_url in [<none>, <error>, ""]
NoWebsite(website_url) ==
    website_url = NaN \/ website_url \in {SentinelNone, SentinelError, ""}

\* a bound of a Python slice over n elements, as slice.indices clamps it
ClampIndex(i, n) ==
    IF i < 0 THEN (IF i + n < 0 THEN 0 ELSE i + n)
    ELSE IF i > n THEN n ELSE i

\* stores_df.iloc[start_idx:end_idx]: the 1-indexed positions selected
Iloc(n, start_idx, end_idx) ==
    LET lo == ClampIndex(start_idx, n)
        hi == ClampIndex(end_idx, n)
    IN  [i \in 1..(IF hi > lo THEN hi - lo ELSE 0) |-> lo + i]

\* lines 118-122
SelectRows(n, start, cnt) ==
    LET start_idx == start - 1
        end_idx == start_idx + cnt
    IN  Iloc(n, start_idx, end_idx)

\* lines 141-149: the rows added for the pages of one store
ResultRows(store_name, website_url, ps) ==
    [i \in 1..Len(ps) |->
        [store |-> store_name, StoreURL |-> website_url,
         PageURL |-> ps[i].PageURL, Instagram |-> ps[i].Instagram]]

\* the empty table: exit(1) (lines 105-107)
EmptyTable ==
    /\ pc = "main"
    /\ stores_df = <<>>
    /\ pc' = "exit"
    /\ UNCHANGED <<crawlVars, linksLeft, mainVars>>
    /\ UNCHANGED placesVars

\* a prompt answered with something int() rejects: exit(1) (lines 113-115)
InputError ==
    /\ pc = "main"
    /\ stores_df # <<>>
    /\ pc' = "exit"
    /\ UNCHANGED <<crawlVars, linksLeft, mainVars>>
    /\ UNCHANGED placesVars

\* the two prompts and the selection of the rows (lines 110-125)
ReadInput ==
    /\ pc = "main"
    /\ stores_df # <<>>
    /\ \E s \in Inputs, c \in Inputs :
          /\ start_index' = s
          /\ count' = c
          /\ selected' = SelectRows(Len(stores_df), s, c)
    /\ k' = 1
    /\ all_results' = <<>>
    /\ pc' = "rows"
    /\ UNCHANGED <<crawlVars, linksLeft, stores_df, calls, saved>>
    /\ UNCHANGED placesVars

\* one row of the for loop up to the call of crawl_website (lines 127-139)
ProcessRow ==
    /\ pc = "rows"
    /\ k <= Len(selected)
    /\ LET row == stores_df[selected[k]]
           website_url == row.website
       IN  IF NoWebsite(website_url) \/ ~is_valid_url(website_url)
           THEN /\ k' = k + 1
                /\ UNCHANGED <<pc, crawlVars, calls>>
           ELSE /\ EnterCrawl(website_url)
                /\ calls' = Append(calls, selected[k])
                /\ pc' = "crawl"
                /\ UNCHANGED k
    /\ UNCHANGED <<linksLeft, stores_df, start_index, count, selected,
                   all_results, saved>>
    /\ UNCHANGED placesVars

\* crawl_website returned: the rows of its pages (lines 139-149)
CollectPages ==
    /\ pc = "returned"
    /\ LET row == stores_df[selected[k]]
       IN  all_results' = all_results \o
                          ResultRows(row.name, row.website, pages)
    /\ k' = k + 1
    /\ pc' = "rows"
    /\ UNCHANGED <<crawlVars, linksLeft, stores_df, start_index, count,
                   selected, calls, saved>>
    /\ UNCHANGED placesVars

\* the for loop is over: save_pages_to_excel(all_results, ...) (line 153)
Save ==
    /\ pc = "rows"
    /\ k > Len(selected)
    /\ saved' = all_results
    /\ pc' = "saved"
    /\ UNCHANGED <<crawlVars, linksLeft, stores_df, start_index, count,
                   selected, k, all_results, calls>>
    /\ UNCHANGED placesVars

\* the script run on a store table that was read
MainInit ==
    /\ pc = "main"
    /\ stores_df \in {StoreTable(t) : t \in Tables}
    /\ root_url = ""
    /\ base_netloc = ""
    /\ visited = {}
    /\ pages = <<>>
    /\ to_visit = <<>>
    /\ response = NoResponse
    /\ log = <<>>
    /\ served = <<>>
    /\ links = <<>>
    /\ enqueued = {}
    /\ iterations = 0
    /\ linksLeft = DriverMaxLinks
    /\ start_index = 0
    /\ count = 0
    /\ selected = <<>>
    /\ k = 0
    /\ all_results = <<>>
    /\ calls = <<>>
    /\ saved = <<>>
    /\ PlacesIdle

MainNext ==
    \/ EmptyTable
    \/ InputError
    \/ ReadInput
    \/ ProcessRow
    \/ CrawlIteration
    \/ CrawlReturn
    \/ CollectPages
    \/ Save

MainSpec == MainInit /\ [][MainNext]_vars

(***************************************************************************)
(* main.py: the places pipeline                                            *)
(***************************************************************************)

\* a key a dict does not have
Absent == "absent"

\* next_page_token: None, the empty string, or a token
NoToken == "None"
Tokens == {NoToken, "", "t1"}

\* the address sentinel of get_full_address (lines 92, 95), written in
\* Japanese in the source ("address unknown")
AddressUnknown == "jusho fumei"

\* the rating and review count defaults (lines 78, 125)
NotAvailable == "N/A"

\* round(haversine(LOCATION[0], LOCATION[1], lat, lng), 2), in 1/100 km:
\* the values the formula of lines 22-37 gives for the coordinates of the two
\* places below, written in 1/10000 degree
RoundedDistance(loc) ==
    CASE loc = <<347600, 1348400>> -> 366
      [] loc = <<346900, 1351950>> -> 3055

\* the places the search may return (a place may be returned twice)
PlaceSet ==
    {[place_id |-> "north", name |-> "North", loc |-> <<347600, 1348400>>,
      rating |-> Absent],
     [place_id |-> "far", name |-> "Far", loc |-> <<346900, 1351950>>,
      rating |-> "4.5"]}

\* what gmaps.places may answer when it may still return n places and
\* `more` says whether a further page may follow
SearchResponses(n, more) ==
    {[raised |-> TRUE, has_results |-> FALSE, results |-> <<>>,
      next_page_token |-> NoToken]}
    \cup {r \in [raised : {FALSE}, has_results : BOOLEAN,
                 results : UNION {[1..m -> PlaceSet] : m \in 0..n},
                 next_page_token : Tokens] :
             /\ (~r.has_results => r.results = <<>>)
             /\ (~more => r.next_page_token \in {NoToken, ""})}

\* what gmaps.place may answer: an exception, a dict without "result", or
\* a dict whose "result" has the website, with or without the review count
DetailResponses ==
    {[raised |-> TRUE, has_result |-> FALSE, website |-> Absent,
      user_ratings_total |-> Absent]}
    \cup {r \in [raised : {FALSE}, has_result : BOOLEAN,
                 website : {Absent, "http://example.test/"},
                 user_ratings_total : {Absent, "12"}] :
             /\ ~r.has_result =>
                   r.website = Absent /\ r.user_ratings_total = Absent
             /\ r.has_result => r.website # Absent}

\* what gmaps.reverse_geocode may answer: an exception or a list
GeocodeResponses ==
    {[raised |-> TRUE, result |-> <<>>],
     [raised |-> FALSE, result |-> <<>>],
     [raised |-> FALSE, result |-> <<"1-1 Hiraoka, Kakogawa">>]}

\* dict.get(key, default)
Get(value, default) == IF value = Absent THEN default ELSE value

\* variant: the page replaces what was accumulated
\* (results = response["results"])
Extend_replace(acc, page) ==
    IF page.has_results THEN page.results ELSE acc

\* if "results" in response: results.extend(response["results"])
\* (lines 54-55)
Extend(acc, page) ==
    IF page.has_results THEN acc \o page.results ELSE acc

\* the negation of `not next_page_token` (line 58): None and "" are falsy
HasNextPage(token) == token # NoToken /\ token # ""

\* variant: a failed lookup is reported like an absent field
get_place_details_default(d) ==
    [website |-> Get(d.website, SentinelNone),
     reviews |-> Get(d.user_ratings_total, NotAvailable)]

\* get_place_details, given what gmaps.place answered (lines 70-82)
get_place_details(d) ==
    IF d.raised
    THEN [website |-> SentinelError, reviews |-> SentinelError]
    ELSE [website |-> Get(d.website, SentinelNone),
          reviews |-> Get(d.user_ratings_total, NotAvailable)]

\* get_full_address, given what gmaps.reverse_geocode answered
\* (lines 85-95)
get_full_address(g) ==
    IF g.raised THEN AddressUnknown
    ELSE IF g.result # <<>> THEN g.result[1]
         ELSE AddressUnknown

\* f"https://www.google.com/maps/place/?q=place_id:{place_id}" (line 119)
google_maps_link(place_id) ==
    "https://www.google.com/maps/place/?q=place_id:" \o place_id

\* the dict appended to data_list for one place (lines 104-131)
PlaceRow(place, d, g) ==
    [name |-> place.name,
     address |-> get_full_address(g),
     rating |-> Get(place.rating, NotAvailable),
     reviews |-> get_place_details(d).reviews,
     website |-> get_place_details(d).website,
     distance |-> RoundedDistance(place.loc),
     link |-> google_maps_link(place.place_id)]

\* df.sort_values(by=<distance>, ascending=True) of a frame with rows: the
\* default sort is not stable, rows of equal distance come in any order
SortValues(rows) ==
    {[i \in DOMAIN rows |-> rows[o[i]]] :
        o \in {q \in Orderings(DOMAIN rows) :
                  \A i \in 1..(Len(rows) - 1) :
                      rows[q[i]].distance <= rows[q[i + 1]].distance}}

\* one iteration of `while True:` in get_places (lines 45-65), with the
\* return and the assignment to places when the loop is left (lines 67, 99)
PlacesRequest ==
    /\ pc = "get_places"
    /\ received' \in
          {Append(received, r) :
             r \in SearchResponses(MaxPlaces - Len(results),
                                   Len(requests) + 1 < MaxPages)}
    /\ requests' = Append(requests, next_page_token)
    /\ LET page == received'[Len(received')]
       IN  IF page.raised
           THEN /\ places' = results
                /\ idx' = 1
                /\ pc' = "for_places"
                /\ UNCHANGED <<results, next_page_token>>
           ELSE /\ results' = Extend(results, page)
                /\ next_page_token' = page.next_page_token
                /\ IF HasNextPage(page.next_page_token)
                   THEN UNCHANGED <<pc, places, idx>>
                   ELSE /\ places' = results'
                        /\ idx' = 1
                        /\ pc' = "for_places"
    /\ UNCHANGED <<data_list, answers, written>>
    /\ UNCHANGED <<crawlVars, linksLeft, mainVars>>

\* one iteration of `for place in places:` (lines 103-131)
EnrichPlace ==
    /\ pc = "for_places"
    /\ idx <= Len(places)
    /\ answers' \in
          {Append(answers, [details |-> d, geocode |-> g]) :
             d \in DetailResponses, g \in GeocodeResponses}
    /\ LET a == answers'[Len(answers')]
       IN  data_list' = Append(data_list,
                               PlaceRow(places[idx], a.details, a.geocode))
    /\ idx' = idx + 1
    /\ UNCHANGED <<pc, results, next_page_token, requests, received, places,
                   written>>
    /\ UNCHANGED <<crawlVars, linksLeft, mainVars>>

\* pd.DataFrame([]) has no columns: sort_values raises KeyError and the
\* script ends before to_excel (lines 134-135)
SortRaises ==
    /\ pc = "for_places"
    /\ idx > Len(places)
    /\ data_list = <<>>
    /\ pc' = "crashed"
    /\ UNCHANGED <<crawlVars, linksLeft, mainVars, placesVars>>

\* the frame is sorted and written (lines 134-139)
WriteOut ==
    /\ pc = "for_places"
    /\ idx > Len(places)
    /\ data_list # <<>>
    /\ written' \in SortValues(data_list)
    /\ pc' = "written"
    /\ UNCHANGED <<results, next_page_token, requests, received, places,
                   idx, data_list, answers>>
    /\ UNCHANGED <<crawlVars, linksLeft, mainVars>>

\* main.py run as a script
PlacesInit ==
    /\ pc = "get_places"
    /\ root_url = ""
    /\ base_netloc = ""
    /\ visited = {}
    /\ pages = <<>>
    /\ to_visit = <<>>
    /\ response = NoResponse
    /\ log = <<>>
    /\ served = <<>>
    /\ links = <<>>
    /\ enqueued = {}
    /\ iterations = 0
    /\ linksLeft = 0
    /\ stores_df = <<>>
    /\ start_index = 0
    /\ count = 0
    /\ selected = <<>>
    /\ k = 0
    /\ all_results = <<>>
    /\ calls = <<>>
    /\ saved = <<>>
    /\ PlacesIdle

PlacesNext ==
    \/ PlacesRequest
    \/ EnrichPlace
    \/ SortRaises
    \/ WriteOut

PlacesSpec == PlacesInit /\ [][PlacesNext]_vars

(***************************************************************************)
(* Vocabulary of the properties                                            *)
(***************************************************************************)

\* the canonical form of a URL: scheme, host and path, without the query
\* string and the fragment
CanonicalOf(url) ==
    LET p == ParseUrl(url)
    IN  p.scheme \o "://" \o p.netloc \o p.path

HostOf(url) == ParseUrl(url).netloc

\* the non-empty hrefs of the page fetched at u, resolved against u
ResolvedAnchors(u) ==
    IF u \in DOMAIN served
    THEN {JoinUrl(u, h) : h \in Range(served[u]) \ {""}}
    ELSE {}

\* the canonical URLs the page fetched at u links to
LinkTargets(u) == {CanonicalOf(a) : a \in ResolvedAnchors(u)}

\* the URLs passed to requests.get, in order
Gets == SelectSeq(log, LAMBDA e : e.op = "get")

\* the link graph found so far: the targets of every page fetched
LinkGraph == [u \in DOMAIN served |-> LinkTargets(u)]

\* breadth-first levels of the graph g: dist maps the URLs reached so far to
\* their distance, level is the set of URLs at distance d
RECURSIVE Levels(_, _, _, _)
Levels(g, dist, level, d) ==
    LET next == UNION {g[u] : u \in level \cap DOMAIN g} \ DOMAIN dist
    IN  IF next = {} THEN dist
        ELSE Levels(g, [u \in next |-> d + 1] @@ dist, next, d + 1)

\* the link distance from the root of every URL reachable from it
Distances == Levels(LinkGraph, (root_url :> 0), {root_url}, 0)

(***************************************************************************)
(* C1: in one invocation of crawl_website, whatever the link graph and the *)
(* fetch failures, no URL is passed to requests.get more than once.        *)
(***************************************************************************)
C1_NoRefetch ==
    \A i, j \in DOMAIN Gets : i # j => Gets[i].url # Gets[j].url

\* a crawl of a cyclic graph (u -> v -> u) that returned
C1_Witness ==
    /\ pc = "returned"
    /\ \E u, v \in DOMAIN served :
          u # v /\ v \in LinkTargets(u) /\ u \in LinkTargets(v)

(***************************************************************************)
(* C2: the crawl is breadth-first: the root is the first URL fetched and   *)
(* the link distance from the root never decreases along the page records. *)
(***************************************************************************)
C2_BreadthFirst ==
    /\ (Len(Gets) > 0 => Gets[1].url = root_url)
    /\ LET dist == Distances
       IN  \A i \in 1..(Len(pages) - 1) :
              /\ {pages[i].PageURL, pages[i + 1].PageURL} \subseteq DOMAIN dist
              /\ dist[pages[i].PageURL] <= dist[pages[i + 1].PageURL]

\* seed -> {B, C}, B -> {D}, emitted as [seed, B, C, D]
C2_Witness ==
    /\ Len(pages) = 4
    /\ pages[1].PageURL = root_url
    /\ {pages[2].PageURL, pages[3].PageURL} \subseteq LinkTargets(root_url)
    /\ pages[4].PageURL \in LinkTargets(pages[2].PageURL)
    /\ Distances[pages[3].PageURL] = 1
    /\ Distances[pages[4].PageURL] = 2

(***************************************************************************)
(* C3: on every finite link graph, with any fetch failures, crawl_website  *)
(* eventually returns, and the number of iterations of its loop never      *)
(* exceeds the number of distinct URLs ever enqueued.                      *)
(***************************************************************************)
C3_Terminates ==
    /\ <>(pc = "returned")
    /\ [](iterations <= Cardinality(enqueued))

\* a crawl of a graph with a cycle, one fetch of which failed, that returned
C3_Witness ==
    /\ pc = "returned"
    /\ iterations >= 3
    /\ Len(Gets) > Len(pages)
    /\ \E u \in DOMAIN served : LinkTargets(u) \cap visited # {}

(***************************************************************************)
(* C4 (as claimed): a URL that differs only by query string or fragment    *)
(* from a visited URL, the root as passed included, is never enqueued or   *)
(* fetched again: no two distinct URLs of visited and frontier share their *)
(* canonical form.                                                         *)
(***************************************************************************)
C4_CanonicalOnce ==
    \A u \in visited : \A v \in visited \cup Range(to_visit) :
        u # v => CanonicalOf(u) # CanonicalOf(v)

(***************************************************************************)
(* C5: every URL of the frontier, and every URL fetched, has exactly the   *)
(* host of the root URL.                                                   *)
(***************************************************************************)
C5_SameHost ==
    /\ \A u \in Range(to_visit) : HostOf(u) = HostOf(root_url)
    /\ \A i \in DOMAIN Gets : HostOf(Gets[i].url) = HostOf(root_url)

\* a page linking to a subdomain, to another case of the host and to
\* another host was processed
C5_Witness ==
    \E u \in DOMAIN served :
        {"www.example.test", "Example.test", "other.test"}
            \subseteq {HostOf(a) : a \in ResolvedAnchors(u)}

(***************************************************************************)
(* C6: the end-to-end scenario of the seed page http://example.test/.      *)
(***************************************************************************)
SeedUrl == "http://example.test/"
SeedAnchors ==
    <<"http://example.test/about?x=1#sec", "https://instagram.com/store/",
      "http://other.test/">>

\* the seed page, and nothing else, has been processed
SeedProcessed ==
    /\ root_url = SeedUrl
    /\ iterations = 1
    /\ SeedUrl \in DOMAIN served
    /\ served[SeedUrl] = SeedAnchors

\* other.test is neither enqueued nor recorded
OtherIgnored ==
    /\ \A u \in enqueued \cup visited : HostOf(u) # "other.test"
    /\ ~Contains(pages[1].Instagram, "other.test")

\* C6 as claimed: the special-link set is {https://instagram.com/store}
C6_ScenarioAsClaimed ==
    SeedProcessed =>
        /\ to_visit = <<"http://example.test/about">>
        /\ links[1] = {"https://instagram.com/store"}
        /\ OtherIgnored

\* C6 as amended: processing the seed appends exactly http://example.test/about
\* to the frontier, the special-link set of the seed is exactly
\* {https://instagram.com/store/} (the path keeps its trailing slash), and
\* http://other.test/ is neither enqueued nor recorded
C6_Scenario ==
    SeedProcessed =>
        /\ to_visit = <<"http://example.test/about">>
        /\ links[1] = {"https://instagram.com/store/"}
        /\ pages[1].Instagram = "https://instagram.com/store/"
        /\ OtherIgnored

C6_Witness == SeedProcessed /\ Len(pages) = 1

(***************************************************************************)
(* C7: special links are deduplicated per page: the special-link set of a  *)
(* page record holds exactly the distinct canonical forms of the anchors   *)
(* of that page whose host contains the marker, each once, and the record  *)
(* renders exactly these.                                                  *)
(***************************************************************************)
SpecialForms(u) ==
    {CanonicalOf(a) : a \in {b \in ResolvedAnchors(u) :
                                Contains(HostOf(b), "instagram.com")}}

C7_SpecialPerPage ==
    /\ Len(links) = Len(pages)
    /\ \A i \in DOMAIN pages :
          /\ links[i] = SpecialForms(pages[i].PageURL)
          /\ pages[i].Instagram \in
                {Join(o, ", ") : o \in Orderings(SpecialForms(pages[i].PageURL))}

\* a page with two different anchors of the same canonical form yields one
\* entry, and the record of a later page has none
C7_Witness ==
    \E i, m \in DOMAIN pages :
        /\ i < m
        /\ Cardinality(links[i]) = 1
        /\ Cardinality({h \in Range(served[pages[i].PageURL]) :
                           Contains(h, "instagram.com")}) = 2
        /\ links[m] = {}

(***************************************************************************)
(* C8: visited and frontier never share a URL, the frontier holds no URL   *)
(* twice, and visited only grows.                                          *)
(***************************************************************************)
C8_VisitedFrontier ==
    /\ [](/\ visited \cap Range(to_visit) = {}
          /\ \A i, j \in DOMAIN to_visit : i # j => to_visit[i] # to_visit[j])
    /\ [][visited \subseteq visited']_vars

\* a page linking back to a visited URL and again to a queued URL was
\* processed, and the frontier is not empty
C8_Witness ==
    /\ Len(to_visit) >= 1
    /\ \E u \in DOMAIN served :
          /\ LinkTargets(u) \cap visited # {}
          /\ \E i, j \in DOMAIN served[u] :
                /\ i # j
                /\ served[u][i] # ""
                /\ served[u][j] # ""
                /\ CanonicalOf(JoinUrl(u, served[u][i]))
                      = CanonicalOf(JoinUrl(u, served[u][j]))
                /\ CanonicalOf(JoinUrl(u, served[u][i])) \in Range(to_visit)

(***************************************************************************)
(* C9: a store row whose website is missing, empty, a sentinel or not an   *)
(* absolute URL is skipped: crawl_website is not called for it, it has no  *)
(* row in the output, and the later selected rows are still processed.     *)
(***************************************************************************)
Skippable(website) ==
    \/ website \in {NaN, "", SentinelNone, SentinelError}
    \/ WebsiteTable[website].scheme = ""
    \/ WebsiteTable[website].netloc = ""

C9_SkipRows ==
    /\ \A i \in DOMAIN calls : ~Skippable(stores_df[calls[i]].website)
    /\ \A i \in DOMAIN all_results :
          ~Skippable(stores_df[all_results[i].store].website)
    /\ pc = "saved" =>
          /\ k = Len(selected) + 1
          /\ calls = SelectSeq(selected,
                        LAMBDA p : ~Skippable(stores_df[p].website))
          /\ \A i \in DOMAIN saved :
                ~Skippable(stores_df[saved[i].store].website)

\* a run that skipped a row, crawled the row after it and wrote its page
C9_Witness ==
    /\ pc = "saved"
    /\ Len(selected) = 2
    /\ Skippable(stores_df[selected[1]].website)
    /\ calls = <<selected[2]>>
    /\ Len(saved) = 1
    /\ saved[1].store = selected[2]

(***************************************************************************)
(* C10 (as claimed): for every integer start index and count and every     *)
(* table of n rows, the driver processes exactly the rows at the positions *)
(* p with start <= p < start + count and 1 <= p <= n, in table order.      *)
(***************************************************************************)
ClaimedRows(n, start, cnt) ==
    SelectSeq([p \in 1..n |-> p], LAMBDA p : start <= p /\ p < start + cnt)

C10_HalfOpenRange ==
    pc = "saved" =>
        /\ k = Len(selected) + 1
        /\ selected = ClaimedRows(Len(stores_df), start_index, count)

(***************************************************************************)
(* C11 (as claimed): the pause is unconditional: between the requests.get  *)
(* of one iteration and the requests.get of the next there is the          *)
(* time.sleep of the first, whether its fetch succeeded or failed.         *)
(***************************************************************************)
C11_PauseEveryIteration ==
    \A i \in DOMAIN log :
        (log[i].op = "get" /\ i < Len(log)) =>
            log[i + 1] = [op |-> "sleep", url |-> log[i].url]

(***************************************************************************)
(* C12: a failed fetch abandons its URL only: the iteration leaves the     *)
(* rest of the frontier and the page records as they were and goes on to   *)
(* the next entry; the URL has no page record, stays in visited and is     *)
(* never requested or enqueued again, even when a later page links to it.  *)
(***************************************************************************)

\* positions in log of the requests that failed: no sleep follows them
FailedGets ==
    {i \in DOMAIN log :
        /\ log[i].op = "get"
        /\ (i = Len(log) \/ log[i + 1].op # "sleep")}

FailedUrls == {log[i].url : i \in FailedGets}

\* the step of an iteration whose fetch failed
FailedIteration == Len(log') = Len(log) + 1

\* C12: a failed URL is visited, not queued, without record and requested
\* once; the failed iteration only pops the head and marks it visited
C12_FailureAbandonsUrlOnly ==
    /\ [](\A u \in FailedUrls :
            /\ u \in visited
            /\ u \notin Range(to_visit)
            /\ \A i \in DOMAIN pages : pages[i].PageURL # u
            /\ Cardinality({i \in DOMAIN log :
                               log[i].op = "get" /\ log[i].url = u}) = 1)
    /\ [][FailedIteration =>
             /\ log'[Len(log')].url = Head(to_visit)
             /\ to_visit' = Tail(to_visit)
             /\ pages' = pages
             /\ visited' = visited \cup {Head(to_visit)}
             /\ pc' = "crawl"]_vars

\* the fetch of a URL failed, the crawl went on, a page fetched later links
\* to that URL, and the crawl returned
C12_Witness ==
    /\ pc = "returned"
    /\ \E i \in FailedGets : \E j \in DOMAIN log :
          /\ i < j
          /\ log[j].op = "get"
          /\ log[j].url \in DOMAIN served
          /\ log[i].url \in LinkTargets(log[j].url)

(***************************************************************************)
(* C13: pages is append-only and holds exactly one record per URL whose    *)
(* fetch succeeded: the record URLs are pairwise distinct and in visited,  *)
(* they are the URLs fetched successfully in the order of their fetches,   *)
(* and a record once appended is never changed or removed.                 *)
(***************************************************************************)

\* the URLs whose requests.get succeeded, in the order of the requests
SucceededUrls ==
    LET ok == SelectSeq([i \in DOMAIN log |-> i],
                        LAMBDA i : log[i].op = "get" /\ i \notin FailedGets)
    IN  [n \in DOMAIN ok |-> log[ok[n]].url]

\* C13: the record URLs are distinct, visited and the successful fetches in
\* order; every step keeps the records already appended
C13_PagesAppendOnly ==
    /\ [](/\ \A i, j \in DOMAIN pages :
                i # j => pages[i].PageURL # pages[j].PageURL
          /\ \A i \in DOMAIN pages : pages[i].PageURL \in visited
          /\ [i \in DOMAIN pages |-> pages[i].PageURL] = SucceededUrls)
    /\ [][/\ Len(pages') >= Len(pages)
          /\ SubSeq(pages', 1, Len(pages)) = pages]_vars

\* three pages were fetched and one fetch failed between two of them
C13_Witness ==
    /\ pc = "returned"
    /\ Len(pages) = 3
    /\ \E i \in FailedGets : 1 < i /\ i < Len(log)

(***************************************************************************)
(* C14: classification is exclusive and the special class comes first: a   *)
(* link whose host contains "instagram.com" goes to the special links of   *)
(* its page only and is never appended to the frontier, also when its host *)
(* is the root host; a crawl whose root host contains the marker requests  *)
(* the root URL and nothing else.                                          *)
(***************************************************************************)
IsSpecialUrl(url) == Contains(HostOf(url), "instagram.com")

C14_SpecialFirst ==
    /\ \A u \in enqueued \ {root_url} : ~IsSpecialUrl(u)
    /\ \A i \in DOMAIN links :
          /\ \A l \in links[i] : IsSpecialUrl(l)
          /\ links[i] \cap (enqueued \ {root_url}) = {}
          /\ \A a \in ResolvedAnchors(pages[i].PageURL) :
                IsSpecialUrl(a) => CanonicalOf(a) \in links[i]
    /\ IsSpecialUrl(root_url) =>
          /\ enqueued = {root_url}
          /\ Len(Gets) <= 1
          /\ \A i \in DOMAIN Gets : Gets[i].url = root_url

\* the crawl of a root whose host contains the marker returned after its
\* page, which links to another page of the root host, was fetched
C14_Witness ==
    /\ pc = "returned"
    /\ IsSpecialUrl(root_url)
    /\ Len(pages) = 1
    /\ \E a \in ResolvedAnchors(root_url) :
          /\ HostOf(a) = HostOf(root_url)
          /\ CanonicalOf(a) # root_url
          /\ CanonicalOf(a) \in links[1]

(***************************************************************************)
(* C15: a failure of the detail fetch or of the reverse geocoding of one   *)
(* place never aborts the batch: every place the search returned has       *)
(* exactly one row; its website and review count are the error sentinel    *)
(* when the detail fetch failed and the none / N/A defaults when the field *)
(* is absent, its address is the unknown sentinel when the geocoding       *)
(* failed or returned nothing; the row depends on nothing else.            *)
(***************************************************************************)

\* the row the claim describes for a place and the answers to its lookups
ClaimedRow(place, d, g) ==
    [name |-> place.name,
     address |-> IF g.raised \/ g.result = <<>> THEN AddressUnknown
                 ELSE g.result[1],
     rating |-> IF place.rating = Absent THEN NotAvailable ELSE place.rating,
     reviews |-> IF d.raised THEN SentinelError
                 ELSE IF d.user_ratings_total = Absent THEN NotAvailable
                 ELSE d.user_ratings_total,
     website |-> IF d.raised THEN SentinelError
                 ELSE IF d.website = Absent THEN SentinelNone
                 ELSE d.website,
     distance |-> RoundedDistance(place.loc),
     link |-> "https://www.google.com/maps/place/?q=place_id:"
              \o place.place_id]

\* s is a rearrangement of t
IsPermutation(s, t) ==
    /\ Len(s) = Len(t)
    /\ \E o \in Orderings(DOMAIN t) : s = [i \in DOMAIN t |-> t[o[i]]]

\* C15: one row per place processed, equal to the row claimed for its place
\* and answers; only an empty search ends without writing
C15_LookupFailuresKeepBatch ==
    /\ Len(data_list) = Len(answers)
    /\ \A i \in DOMAIN data_list :
          data_list[i] = ClaimedRow(places[i], answers[i].details,
                                    answers[i].geocode)
    /\ (pc = "for_places" => Len(data_list) = idx - 1)
    /\ (pc = "crashed" => places = <<>>)
    /\ (pc = "written" =>
          /\ Len(data_list) = Len(places)
          /\ IsPermutation(written, data_list))

\* two places were written: both lookups of the first failed, those of the
\* second answered in full
C15_Witness ==
    /\ pc = "written"
    /\ Len(places) = 2
    /\ answers[1].details.raised
    /\ answers[1].geocode.raised
    /\ ~answers[2].details.raised
    /\ answers[2].details.website # Absent
    /\ answers[2].details.user_ratings_total # Absent
    /\ answers[2].geocode.result # <<>>

(***************************************************************************)
(* C16: get_places requests the pages in sequence: the first request has   *)
(* no token, every later request has the token of the response before it,  *)
(* a further request is made exactly when the last response carried a      *)
(* non-empty token, and what is returned is the results of all the pages   *)
(* received, concatenated in page order; a request that raises ends the    *)
(* loop and the results of the earlier pages are returned.                 *)
(***************************************************************************)

\* the results of the pages received, one after the other
RECURSIVE PagesConcat(_)
PagesConcat(rs) ==
    IF rs = <<>> THEN <<>>
    ELSE PagesConcat(SubSeq(rs, 1, Len(rs) - 1))
         \o (IF rs[Len(rs)].raised \/ ~rs[Len(rs)].has_results THEN <<>>
             ELSE rs[Len(rs)].results)

\* the response asks for a further page
CarriesToken(r) == ~r.raised /\ r.next_page_token \notin {NoToken, ""}

\* C16: tokens are chained from response to request, the loop runs exactly
\* while the last response carries a token, the pages are concatenated
C16_Pagination ==
    /\ Len(requests) = Len(received)
    /\ (requests # <<>> => requests[1] = NoToken)
    /\ \A i \in 2..Len(requests) :
          /\ CarriesToken(received[i - 1])
          /\ requests[i] = received[i - 1].next_page_token
    /\ (pc = "get_places" =>
          /\ received # <<>> => CarriesToken(received[Len(received)])
          /\ results = PagesConcat(received))
    /\ (pc # "get_places" =>
          /\ received # <<>>
          /\ ~CarriesToken(received[Len(received)])
          /\ places = PagesConcat(received))

\* two pages were received, each with places, and get_places returned
C16_Witness ==
    /\ pc = "for_places"
    /\ idx = 1
    /\ Len(received) = 2
    /\ requests = <<NoToken, "t1">>
    /\ received[1].results # <<>>
    /\ received[2].results # <<>>
    /\ places = received[1].results \o received[2].results

(***************************************************************************)
(* C17 (as claimed): for every list of places the search returns, the      *)
(* empty list included, the pipeline reaches write-out, and the rows       *)
(* written are the rows of the places, rearranged in ascending order of    *)
(* distance.                                                               *)
(***************************************************************************)
C17_SortedWriteOut ==
    /\ pc # "crashed"
    /\ (pc = "written" =>
          /\ IsPermutation(written, data_list)
          /\ \A i \in 1..(Len(written) - 1) :
                written[i].distance <= written[i + 1].distance)

(***************************************************************************)
(* C18: when crawl_website returns, the traversal is complete: visited is  *)
(* the root URL together with every canonical URL of the root host, not    *)
(* special, that is reachable from the root through the links of the pages *)
(* fetched successfully; each of them was requested and nothing else was.  *)
(***************************************************************************)

\* the links of the pages fetched that the crawl is to follow
InternalGraph ==
    [u \in DOMAIN served |->
        {v \in LinkTargets(u) :
            HostOf(v) = HostOf(root_url) /\ ~IsSpecialUrl(v)}]

\* the URLs reachable from the root in that graph
Reachable == DOMAIN Levels(InternalGraph, (root_url :> 0), {root_url}, 0)

\* C18: at return, visited and the URLs requested are the URLs reachable
C18_TraversalComplete ==
    pc = "returned" =>
        /\ visited = Reachable
        /\ {Gets[i].url : i \in DOMAIN Gets} = Reachable

\* a crawl returned after it followed links two levels deep, one fetch
\* failed, and a page fetched links to another host
C18_Witness ==
    /\ pc = "returned"
    /\ \E u \in Reachable : Distances[u] = 2
    /\ FailedGets # {}
    /\ \E u \in DOMAIN served : \E a \in ResolvedAnchors(u) :
          HostOf(a) = "other.test"

(***************************************************************************)
(* C19: the discard branch of the dequeue is never taken: the URL at the   *)
(* head of the frontier is never in visited when it is popped, so every    *)
(* iteration of the loop requests its URL.                                 *)
(***************************************************************************)
C19_DiscardNeverTaken ==
    /\ (to_visit # <<>> => Head(to_visit) \notin visited)
    /\ iterations = Len(Gets)

\* a crawl returned; one of its pages links to a URL requested before and
\* one of its pages carries the same link twice
C19_Witness ==
    /\ pc = "returned"
    /\ iterations >= 2
    /\ \E u \in DOMAIN served :
          LinkTargets(u) \cap {Gets[i].url : i \in DOMAIN Gets} # {}
    /\ \E u \in DOMAIN served : \E i, j \in DOMAIN served[u] :
          /\ i < j
          /\ served[u][i] # ""
          /\ served[u][i] = served[u][j]
          /\ HostOf(JoinUrl(u, served[u][i])) = HostOf(root_url)
          /\ ~IsSpecialUrl(root_url)

====
